---- MODULE Spec2Model ----
(***************************************************************************)
(* Batch deletion of blog posts (batchDeleteBlogs) against a git-style     *)
(* object store: a branch pointer, immutable commits and trees.            *)
(*                                                                         *)
(* A path is a sequence of segments (<<"public","images","a","x.png">>),   *)
(* a slug is a sequence of segments too (<<"a","b">> is the slug "a/b").   *)
(* A tree is the set of the paths it holds.  A commit hash is modelled by  *)
(* the commit object itself (content addressing): a record of its tree,    *)
(* its parents, its message and who created it.                            *)
(***************************************************************************)
EXTENDS Integers, Sequences, FiniteSets, TLC

\* ------------------------------------------------------------------ bounds
\* Longest slug list of a call when one client runs alone (SpecBatch).
MaxSlugs == 3
\* Longest slug list of a call when the clients race (Spec).
MaxRaceSlugs == 1
\* Commits that other writers put on the branch.
MaxOther == 1

\* The key file reads that may be pending together.
MaxReads == 1

\* ------------------------------------------------------------- the world
\* The browser sessions that run batchDeleteBlogs against the same branch.
Clients == {"c1", "c2"}

\* The posts of the blog: "a" and the nested "a/b".
Slugs == {<<"a">>, <<"a", "b">>}

\* The tree of the branch before anything runs: post a has both content
\* files and one image; post a/b has only its .md file and no image directory.
InitTree ==
    { <<"src", "content", "blog", "a.md">>,
      <<"src", "content", "blog", "a.mdx">>,
      <<"src", "content", "blog", "a", "b.md">>,
      <<"public", "images", "a", "x.png">>,
      <<"README.md">> }

\* The files other writers add while transactions run.
OtherPaths ==
    { <<"public", "images", "a", "b", "y.png">>,
      <<"src", "content", "blog", "n.md">> }

InitCommit ==
    [tree |-> InitTree, parents |-> <<>>, message |-> <<"init">>, by |-> "init"]

\* ------------------------------------------------------------ sequences
Range(s) == {s[i] : i \in 1..Len(s)}

Front(s) == SubSeq(s, 1, Len(s) - 1)

Last(s) == s[Len(s)]

RECURSIVE SeqsUpTo(_, _)
\* Every sequence over S of length at most n.
SeqsUpTo(S, n) ==
    IF n = 0 THEN {<<>>}
    ELSE LET shorter == SeqsUpTo(S, n - 1)
         IN  shorter \cup {Append(s, x) : s \in shorter, x \in S}

RECURSIVE SetToSeq(_)
\* The elements of a finite set in a fixed order.
SetToSeq(S) ==
    IF S = {} THEN <<>>
    ELSE LET p == CHOOSE x \in S : TRUE
         IN  <<p>> \o SetToSeq(S \ {p})

\* ---------------------------------------------------------------- paths
\* `public/images/${slug}`
imagesPath(slug) == <<"public", "images">> \o slug

\* `src/content/blog/${slug}.md`
mdPath(slug) ==
    <<"src", "content", "blog">> \o Front(slug) \o <<Last(slug) \o ".md">>

\* `src/content/blog/${slug}.mdx`
mdxPath(slug) ==
    <<"src", "content", "blog">> \o Front(slug) \o <<Last(slug) \o ".mdx">>

\* A file path lies under directory dir.
IsUnder(path, dir) ==
    /\ Len(path) > Len(dir)
    /\ SubSeq(path, 1, Len(dir)) = dir

\* ------------------------------------------------------------- tree items
\* sha: null of a TreeItem.
NullSha == "null"

\* Faulty variant: the entry carries a blob hash, so it writes the path.
DeleteItem_Blob(path) ==
    [path |-> path, mode |-> "100644", type |-> "blob", sha |-> "blob"]

\* { path, mode: '100644', type: 'blob', sha: null }
DeleteItem(path) ==
    [path |-> path, mode |-> "100644", type |-> "blob", sha |-> NullSha]

\* Faulty variant: the push of the .md entry is missing.
ItemsForSlug_NoMd(slug, imageFiles) ==
    [i \in 1..Len(imageFiles) |-> DeleteItem(imageFiles[i])]
        \o <<DeleteItem(mdxPath(slug))>>

\* Faulty variant: the push of the .mdx entry is missing.
ItemsForSlug_NoMdx(slug, imageFiles) ==
    [i \in 1..Len(imageFiles) |-> DeleteItem(imageFiles[i])]
        \o <<DeleteItem(mdPath(slug))>>

\* Faulty variant: the listed image files are not pushed.
ItemsForSlug_NoImages(slug, imageFiles) ==
    <<DeleteItem(mdPath(slug)), DeleteItem(mdxPath(slug))>>

\* The items one iteration of the slug loop pushes: one per listed image
\* file, in listing order, then the .md and the .mdx entry.
ItemsForSlug(slug, imageFiles) ==
    [i \in 1..Len(imageFiles) |-> DeleteItem(imageFiles[i])]
        \o <<DeleteItem(mdPath(slug)), DeleteItem(mdxPath(slug))>>

\* The commit message: one slug, or the number of slugs.
Message(list) ==
    IF Len(list) = 1 THEN <<"delete", list[1]>> ELSE <<"batch", Len(list)>>

\* Faulty variant: the commit is created without a parent.
CommitParents_Orphan(latest) == <<>>

\* Faulty variant: the commit gets the base commit's own parents as further parents.
CommitParents_Merge(latest) == <<latest>> \o latest.parents

\* parents argument of createCommit.
CommitParents(latest) == <<latest>>

\* ------------------------------------------------------- the object store
\* listRepoFilesRecursive: every file under dir in the tree of the branch
\* head; an absent directory lists as empty.
ListFiles(tree, dir) == SetToSeq({p \in tree : IsUnder(p, dir)})

RECURSIVE ApplyItems(_, _)
\* createTree: the base tree with every item applied in order; an item with
\* a null sha removes its path (a no-op when the path is absent), any other
\* item writes its path.
ApplyItems(tree, items) ==
    IF items = <<>> THEN tree
    ELSE LET it == Head(items)
             next == IF it.sha = NullSha THEN tree \ {it.path}
                     ELSE tree \cup {it.path}
         IN  ApplyItems(next, Tail(items))

\* updateRef moves the pointer only when it still is the commit the new
\* commit was built on.
CanAdvance(current, new) == current \in Range(new.parents)

RECURSIVE Ancestors(_)
\* The commits reachable from c, c included.
Ancestors(c) ==
    {c} \cup UNION {Ancestors(c.parents[i]) : i \in 1..Len(c.parents)}

\* The commits of other writers in the history of c.
OtherCount(c) == Cardinality({x \in Ancestors(c) : x.by = "other"})

\* ---------------------------------------------------------------- state
VARIABLES
    head,              \* the commit the branch points to
    pc,                \* where each client's batchDeleteBlogs call stands
    slugsGiven,        \* FALSE when the call got no slug list at all
    slugs,             \* the slug list of the call
    idx,               \* the slugs the loop has processed
    latestCommitSha,   \* refData.sha
    treeItems,         \* the mutation set built so far
    listed,            \* the imageFiles each finished iteration got
    treeData,          \* the tree createTree returned
    commitData,        \* the commit createCommit returned
    err,               \* the error the call threw
    calls,             \* the external calls the call has made, in order
    toasts,            \* the notifications of the call, in order
    editMode,          \* ArchiveList: the editMode state
    selectedSlugs,     \* ArchiveList: the selected slugs, in insertion order
    deleting,          \* ArchiveList: the deleting state
    isAuth,            \* the auth store's isAuth
    picker,            \* TRUE while the key file dialog is open
    reads,             \* the selections captured by the pending key file reads
    exec,              \* where the executeDelete that made each call stands
    before             \* editMode and the selection as each executeDelete began

\* The state of the ArchiveList component.
view == <<editMode, selectedSlugs, deleting, isAuth, picker, reads, exec, before>>

vars == <<head, pc, slugsGiven, slugs, idx, latestCommitSha, treeItems,
          listed, treeData, commitData, err, calls, toasts, view>>

NoErr == "none"

\* No call has been made.
InitCalls ==
    /\ head = InitCommit
    /\ pc = [t \in Clients |-> "idle"]
    /\ slugsGiven = [t \in Clients |-> TRUE]
    /\ slugs = [t \in Clients |-> <<>>]
    /\ idx = [t \in Clients |-> 0]
    /\ latestCommitSha = [t \in Clients |-> InitCommit]
    /\ treeItems = [t \in Clients |-> <<>>]
    /\ listed = [t \in Clients |-> <<>>]
    /\ treeData = [t \in Clients |-> {}]
    /\ commitData = [t \in Clients |-> InitCommit]
    /\ err = [t \in Clients |-> NoErr]
    /\ calls = [t \in Clients |-> <<>>]
    /\ toasts = [t \in Clients |-> <<>>]

\* The component as it is mounted: useState(false), useState(new Set()),
\* useState(false).
InitView ==
    /\ editMode = FALSE
    /\ selectedSlugs = <<>>
    /\ deleting = FALSE
    /\ picker = FALSE
    /\ reads = <<>>
    /\ exec = [t \in Clients |-> "idle"]
    /\ before = [t \in Clients |-> [editMode |-> FALSE, selectedSlugs |-> <<>>]]

Init ==
    /\ InitCalls
    /\ InitView
    /\ isAuth = FALSE

\* The call throws: it ends failed with the error e.
Throw(t, e) ==
    /\ pc' = [pc EXCEPT ![t] = "failed"]
    /\ err' = [err EXCEPT ![t] = e]

\* The record of one more external call.
Called(t, c) == calls' = [calls EXCEPT ![t] = Append(@, c)]

\* A notification: its kind, the stage it tells of, the slug it names and
\* the number of external calls made before it.
Notice(kind, stage, slug, at) == [kind |-> kind, stage |-> stage, slug |-> slug, at |-> at]

\* toast.info(...) before the next external call of t.
Toast(t, stage, slug) ==
    toasts' = [toasts EXCEPT ![t] = Append(@, Notice("info", stage, slug, Len(calls[t])))]

\* Faulty variant: the argument check is missing.
Enter_NoCheck(t, given, list) ==
    /\ pc[t] = "idle"
    /\ slugsGiven' = [slugsGiven EXCEPT ![t] = given]
    /\ slugs' = [slugs EXCEPT ![t] = list]
    /\ pc' = [pc EXCEPT ![t] = "getAuthToken"]
    /\ UNCHANGED <<head, idx, latestCommitSha, treeItems, listed, treeData,
                   commitData, err, calls, toasts>>

\* batchDeleteBlogs(slugs): the argument check, before the first await.
Enter(t, given, list) ==
    /\ pc[t] = "idle"
    /\ slugsGiven' = [slugsGiven EXCEPT ![t] = given]
    /\ slugs' = [slugs EXCEPT ![t] = list]
    /\ IF ~given \/ Len(list) = 0
       THEN Throw(t, "input")
       ELSE /\ pc' = [pc EXCEPT ![t] = "getAuthToken"]
            /\ UNCHANGED err
    /\ UNCHANGED <<head, idx, latestCommitSha, treeItems, listed, treeData,
                   commitData, calls, toasts>>

\* A call with any slug list of at most n slugs, or with none at all.
batchDeleteBlogs(t, n) ==
    \/ \E list \in SeqsUpTo(Slugs, n) : Enter(t, TRUE, list)
    \/ Enter(t, FALSE, <<>>)

\* Faulty variant: getRef is issued together with getAuthToken, not after it.
GetAuthToken_Parallel(t, ok) ==
    /\ pc[t] = "getAuthToken"
    /\ IF ok
       THEN /\ Called(t, <<"getAuthToken">>)
            /\ pc' = [pc EXCEPT ![t] = "getRef"]
            /\ UNCHANGED err
       ELSE /\ calls' = [calls EXCEPT ![t] = @ \o << <<"getAuthToken">>, <<"getRef">> >>]
            /\ Throw(t, "auth")
    /\ UNCHANGED <<head, slugsGiven, slugs, idx, latestCommitSha, treeItems,
                   listed, treeData, commitData, toasts>>

\* const token = await getAuthToken()
GetAuthToken(t, ok) ==
    /\ pc[t] = "getAuthToken"
    /\ Called(t, <<"getAuthToken">>)
    /\ IF ok
       THEN /\ pc' = [pc EXCEPT ![t] = "getRef"]
            /\ UNCHANGED err
       ELSE Throw(t, "auth")
    /\ UNCHANGED <<head, slugsGiven, slugs, idx, latestCommitSha, treeItems,
                   listed, treeData, commitData, toasts>>

getAuthToken(t) == \E ok \in BOOLEAN : GetAuthToken(t, ok)

\* const refData = await getRef(...); latestCommitSha = refData.sha;
\* treeItems = []
GetRef(t, ok) ==
    /\ pc[t] = "getRef"
    /\ Toast(t, "getRef", <<>>)
    /\ Called(t, <<"getRef">>)
    /\ IF ok
       THEN /\ latestCommitSha' = [latestCommitSha EXCEPT ![t] = head]
            /\ treeItems' = [treeItems EXCEPT ![t] = <<>>]
            /\ listed' = [listed EXCEPT ![t] = <<>>]
            /\ idx' = [idx EXCEPT ![t] = 0]
            /\ pc' = [pc EXCEPT ![t] = IF Len(slugs[t]) > 0 THEN "list" ELSE "createTree"]
            /\ UNCHANGED err
       ELSE /\ Throw(t, "getRef")
            /\ UNCHANGED <<latestCommitSha, treeItems, listed, idx>>
    /\ UNCHANGED <<head, slugsGiven, slugs, treeData, commitData>>

getRef(t) == \E ok \in BOOLEAN : GetRef(t, ok)

\* Faulty variant: a failed listing is noted and the loop goes on with the
\* next slug.
ListSlug_SkipOnError(t, ok) ==
    /\ pc[t] = "list"
    /\ LET slug == slugs[t][idx[t] + 1]
           imageFiles == ListFiles(head.tree, imagesPath(slug))
       IN  /\ Toast(t, "list", slug)
           /\ Called(t, <<"listRepoFilesRecursive", imagesPath(slug)>>)
           /\ treeItems' = [treeItems EXCEPT ![t] =
                   IF ok THEN @ \o ItemsForSlug(slug, imageFiles) ELSE @]
           /\ listed' = [listed EXCEPT ![t] = Append(@, IF ok THEN imageFiles ELSE <<>>)]
           /\ idx' = [idx EXCEPT ![t] = @ + 1]
           /\ pc' = [pc EXCEPT ![t] = IF idx[t] + 1 < Len(slugs[t]) THEN "list" ELSE "createTree"]
           /\ err' = [err EXCEPT ![t] = IF ok THEN @ ELSE "list"]
    /\ UNCHANGED <<head, slugsGiven, slugs, latestCommitSha, treeData, commitData>>

\* Faulty variant: a failed listing is tried once more before the call gives
\* up.
ListSlug_Retry(t, ok) ==
    /\ pc[t] = "list"
    /\ LET slug == slugs[t][idx[t] + 1]
           imageFiles == ListFiles(head.tree, imagesPath(slug))
           call == <<"listRepoFilesRecursive", imagesPath(slug)>>
           second == Len(calls[t]) = idx[t] + 3
       IN  /\ Toast(t, "list", slug)
           /\ Called(t, call)
           /\ IF ok
              THEN /\ treeItems' = [treeItems EXCEPT ![t] = @ \o ItemsForSlug(slug, imageFiles)]
                   /\ listed' = [listed EXCEPT ![t] = Append(@, imageFiles)]
                   /\ idx' = [idx EXCEPT ![t] = @ + 1]
                   /\ pc' = [pc EXCEPT ![t] = IF idx[t] + 1 < Len(slugs[t]) THEN "list" ELSE "createTree"]
                   /\ UNCHANGED err
              ELSE /\ IF second THEN Throw(t, "list") ELSE UNCHANGED <<pc, err>>
                   /\ UNCHANGED <<treeItems, listed, idx>>
    /\ UNCHANGED <<head, slugsGiven, slugs, latestCommitSha, treeData, commitData>>

\* One iteration of for (const slug of slugs): the listing of the slug's
\* image directory on the branch, then the pushes.
ListSlug(t, ok) ==
    /\ pc[t] = "list"
    /\ LET slug == slugs[t][idx[t] + 1]
           imageFiles == ListFiles(head.tree, imagesPath(slug))
       IN  /\ Toast(t, "list", slug)
           /\ Called(t, <<"listRepoFilesRecursive", imagesPath(slug)>>)
           /\ IF ok
              THEN /\ treeItems' = [treeItems EXCEPT ![t] = @ \o ItemsForSlug(slug, imageFiles)]
                   /\ listed' = [listed EXCEPT ![t] = Append(@, imageFiles)]
                   /\ idx' = [idx EXCEPT ![t] = @ + 1]
                   /\ pc' = [pc EXCEPT ![t] = IF idx[t] + 1 < Len(slugs[t]) THEN "list" ELSE "createTree"]
                   /\ UNCHANGED err
              ELSE /\ Throw(t, "list")
                   /\ UNCHANGED <<treeItems, listed, idx>>
    /\ UNCHANGED <<head, slugsGiven, slugs, latestCommitSha, treeData, commitData>>

listRepoFilesRecursive(t) == \E ok \in BOOLEAN : ListSlug(t, ok)

\* Faulty variant: the base tree is not passed on, the new tree is made of the
\* items alone.
CreateTree_NoBase(t, ok) ==
    /\ pc[t] = "createTree"
    /\ Toast(t, "createTree", <<>>)
    /\ Called(t, <<"createTree">>)
    /\ IF ok
       THEN /\ treeData' = [treeData EXCEPT ![t] = ApplyItems({}, treeItems[t])]
            /\ pc' = [pc EXCEPT ![t] = "createCommit"]
            /\ UNCHANGED err
       ELSE /\ Throw(t, "createTree")
            /\ UNCHANGED treeData
    /\ UNCHANGED <<head, slugsGiven, slugs, idx, latestCommitSha, treeItems, listed, commitData>>

\* const treeData = await createTree(..., treeItems, latestCommitSha)
CreateTree(t, ok) ==
    /\ pc[t] = "createTree"
    /\ Toast(t, "createTree", <<>>)
    /\ Called(t, <<"createTree">>)
    /\ IF ok
       THEN /\ treeData' = [treeData EXCEPT ![t] = ApplyItems(latestCommitSha[t].tree, treeItems[t])]
            /\ pc' = [pc EXCEPT ![t] = "createCommit"]
            /\ UNCHANGED err
       ELSE /\ Throw(t, "createTree")
            /\ UNCHANGED treeData
    /\ UNCHANGED <<head, slugsGiven, slugs, idx, latestCommitSha, treeItems, listed, commitData>>

createTree(t) == \E ok \in BOOLEAN : CreateTree(t, ok)

\* Faulty variant: the commit is made of the tree of the base commit, not of
\* the tree createTree returned.
CreateCommit_BaseTree(t, ok) ==
    /\ pc[t] = "createCommit"
    /\ Toast(t, "createCommit", <<>>)
    /\ Called(t, <<"createCommit">>)
    /\ IF ok
       THEN /\ commitData' = [commitData EXCEPT ![t] =
                   [tree |-> latestCommitSha[t].tree,
                    parents |-> CommitParents(latestCommitSha[t]),
                    message |-> Message(slugs[t]),
                    by |-> t]]
            /\ pc' = [pc EXCEPT ![t] = "updateRef"]
            /\ UNCHANGED err
       ELSE /\ Throw(t, "createCommit")
            /\ UNCHANGED commitData
    /\ UNCHANGED <<head, slugsGiven, slugs, idx, latestCommitSha, treeItems, listed, treeData>>

\* Faulty variant: a failed createCommit is noted and the call goes on to
\* updateRef.
CreateCommit_FailureIgnored(t, ok) ==
    /\ pc[t] = "createCommit"
    /\ Toast(t, "createCommit", <<>>)
    /\ Called(t, <<"createCommit">>)
    /\ commitData' = [commitData EXCEPT ![t] =
            IF ok THEN [tree |-> treeData[t],
                        parents |-> CommitParents(latestCommitSha[t]),
                        message |-> Message(slugs[t]),
                        by |-> t]
            ELSE @]
    /\ pc' = [pc EXCEPT ![t] = "updateRef"]
    /\ err' = [err EXCEPT ![t] = IF ok THEN @ ELSE "createCommit"]
    /\ UNCHANGED <<head, slugsGiven, slugs, idx, latestCommitSha, treeItems, listed, treeData>>

\* Faulty variant: the parent is the branch head at the time of createCommit, not
\* the commit getRef returned.
CreateCommit_ParentIsHead(t, ok) ==
    /\ pc[t] = "createCommit"
    /\ Toast(t, "createCommit", <<>>)
    /\ Called(t, <<"createCommit">>)
    /\ IF ok
       THEN /\ commitData' = [commitData EXCEPT ![t] =
                   [tree |-> treeData[t],
                    parents |-> CommitParents(head),
                    message |-> Message(slugs[t]),
                    by |-> t]]
            /\ pc' = [pc EXCEPT ![t] = "updateRef"]
            /\ UNCHANGED err
       ELSE /\ Throw(t, "createCommit")
            /\ UNCHANGED commitData
    /\ UNCHANGED <<head, slugsGiven, slugs, idx, latestCommitSha, treeItems, listed, treeData>>

\* const commitData = await createCommit(..., message, treeData.sha, [latestCommitSha])
CreateCommit(t, ok) ==
    /\ pc[t] = "createCommit"
    /\ Toast(t, "createCommit", <<>>)
    /\ Called(t, <<"createCommit">>)
    /\ IF ok
       THEN /\ commitData' = [commitData EXCEPT ![t] =
                   [tree |-> treeData[t],
                    parents |-> CommitParents(latestCommitSha[t]),
                    message |-> Message(slugs[t]),
                    by |-> t]]
            /\ pc' = [pc EXCEPT ![t] = "updateRef"]
            /\ UNCHANGED err
       ELSE /\ Throw(t, "createCommit")
            /\ UNCHANGED commitData
    /\ UNCHANGED <<head, slugsGiven, slugs, idx, latestCommitSha, treeItems, listed, treeData>>

createCommit(t) == \E ok \in BOOLEAN : CreateCommit(t, ok)

\* Faulty variant: the success toast is shown before updateRef has answered.
UpdateRef_SuccessFirst(t, answer) ==
    /\ pc[t] = "updateRef"
    /\ Called(t, <<"updateRef">>)
    /\ LET info == Notice("info", "updateRef", <<>>, Len(calls[t]))
           success == Notice("success", "done", <<>>, Len(calls[t]) + 1)
       IN  toasts' = [toasts EXCEPT ![t] = @ \o <<info, success>>]
    /\ LET can == CanAdvance(head, commitData[t])
       IN  \/ /\ answer = "ok"
              /\ can
              /\ head' = commitData[t]
              /\ pc' = [pc EXCEPT ![t] = "done"]
              /\ UNCHANGED err
           \/ /\ answer = "conflict"
              /\ ~can
              /\ head' = head
              /\ Throw(t, "conflict")
           \/ /\ answer = "rejected"
              /\ head' = head
              /\ Throw(t, "updateRef")
           \/ /\ answer = "lost"
              /\ can
              /\ head' = commitData[t]
              /\ Throw(t, "updateRef")
    /\ UNCHANGED <<slugsGiven, slugs, idx, latestCommitSha, treeItems, listed, treeData, commitData>>

\* await updateRef(..., commitData.sha); then the success toast.
\* The store answers ok (the pointer moved), conflict (it did not), or the
\* call fails otherwise, before the store acted or after it did.
UpdateRef(t, answer) ==
    /\ pc[t] = "updateRef"
    /\ Called(t, <<"updateRef">>)
    /\ LET info == Notice("info", "updateRef", <<>>, Len(calls[t]))
           success == Notice("success", "done", <<>>, Len(calls[t]) + 1)
       IN  toasts' = [toasts EXCEPT ![t] =
               IF answer = "ok" THEN @ \o <<info, success>> ELSE Append(@, info)]
    /\ LET can == CanAdvance(head, commitData[t])
       IN  \/ /\ answer = "ok"
              /\ can
              /\ head' = commitData[t]
              /\ pc' = [pc EXCEPT ![t] = "done"]
              /\ UNCHANGED err
           \/ /\ answer = "conflict"
              /\ ~can
              /\ head' = head
              /\ Throw(t, "conflict")
           \/ /\ answer = "rejected"
              /\ head' = head
              /\ Throw(t, "updateRef")
           \/ /\ answer = "lost"
              /\ can
              /\ head' = commitData[t]
              /\ Throw(t, "updateRef")
    /\ UNCHANGED <<slugsGiven, slugs, idx, latestCommitSha, treeItems, listed, treeData, commitData>>

updateRef(t) == \E answer \in {"ok", "conflict", "rejected", "lost"} : UpdateRef(t, answer)

\* Another writer puts a commit that adds one file on the branch.
OtherWriter ==
    /\ OtherCount(head) < MaxOther
    /\ \E p \in OtherPaths \ head.tree :
          head' = [tree |-> head.tree \cup {p}, parents |-> <<head>>,
                   message |-> <<"add", p>>, by |-> "other"]
    /\ UNCHANGED <<pc, slugsGiven, slugs, idx, latestCommitSha, treeItems,
                   listed, treeData, commitData, err, calls, toasts>>

\* The steps of a call that is under way.
Step(t) ==
    \/ getAuthToken(t)
    \/ getRef(t)
    \/ listRepoFilesRecursive(t)
    \/ createTree(t)
    \/ createCommit(t)
    \/ updateRef(t)

\* Every client calls batchDeleteBlogs at most once, with a short slug list;
\* the calls and the other writers interleave.
Next ==
    \/ \E t \in Clients : batchDeleteBlogs(t, MaxRaceSlugs) /\ UNCHANGED view
    \/ \E t \in Clients : Step(t) /\ UNCHANGED view
    \/ OtherWriter /\ UNCHANGED view

Spec == Init /\ [][Next]_vars

\* One client calls batchDeleteBlogs once, with a longer slug list, while
\* other writers commit.
NextBatch ==
    \/ batchDeleteBlogs("c1", MaxSlugs) /\ UNCHANGED view
    \/ Step("c1") /\ UNCHANGED view
    \/ OtherWriter /\ UNCHANGED view

SpecBatch == Init /\ [][NextBatch]_vars

\* ------------------------------------------------------ the ArchiveList
\* The call state, all of it left alone by what only the component does.
callVars == <<head, pc, slugsGiven, slugs, idx, latestCommitSha, treeItems,
              listed, treeData, commitData, err, calls>>

\* The slugs of the posts prop: the posts the component lists.
Posts == {<<"a">>}

\* The component may be mounted with or without a key in the auth store.
InitUI ==
    /\ InitCalls
    /\ InitView
    /\ isAuth \in BOOLEAN

\* The call of t has settled and the executeDelete that awaits it has not
\* resumed yet.
Settled(t) == exec[t] = "await" /\ pc[t] \in {"done", "failed"}

\* No continuation is waiting: the browser takes the next event only then,
\* and none from the page while the key file dialog is open.
Quiet == \A t \in Clients : ~Settled(t)

\* The call the next executeDelete makes: the first one not made yet.
Invocation == IF exec["c1"] = "idle" THEN "c1" ELSE "c2"

\* new Set(selectedSlugs) with slug deleted if it has it, added if not.
Toggled(sel, slug) ==
    IF slug \in Range(sel)
    THEN SelectSeq(sel, LAMBDA x : x # slug)
    ELSE Append(sel, slug)

\* Faulty variant: setSelectedSlugs(new Set()) is missing.
toggleEditMode_KeepsSelection ==
    /\ Quiet /\ ~picker
    /\ editMode => ~deleting
    /\ editMode' = ~editMode
    /\ UNCHANGED <<selectedSlugs, deleting, isAuth, picker, reads, exec, before, toasts>>
    /\ UNCHANGED callVars

\* toggleEditMode, from the button of either mode; the cancel button is
\* disabled while deleting.
toggleEditMode ==
    /\ Quiet /\ ~picker
    /\ editMode => ~deleting
    /\ editMode' = ~editMode
    /\ selectedSlugs' = <<>>
    /\ UNCHANGED <<deleting, isAuth, picker, reads, exec, before, toasts>>
    /\ UNCHANGED callVars

\* toggleSelect(slug), from a checkbox or a card; both act in edit mode only.
toggleSelect(slug) ==
    /\ Quiet /\ ~picker
    /\ editMode
    /\ selectedSlugs' = Toggled(selectedSlugs, slug)
    /\ UNCHANGED <<editMode, deleting, isAuth, picker, reads, exec, before, toasts>>
    /\ UNCHANGED callVars

\* executeDelete up to its await: setDeleting(true) and the call of
\* batchDeleteBlogs(Array.from(selection)).
executeDelete(selection) ==
    LET t == Invocation
    IN  /\ exec[t] = "idle"
        /\ deleting' = TRUE
        /\ Enter(t, TRUE, selection)
        /\ exec' = [exec EXCEPT ![t] = "await"]
        /\ before' = [before EXCEPT ![t] =
                [editMode |-> editMode, selectedSlugs |-> selectedSlugs]]

\* Faulty variant: edit mode is left and the selection cleared in finally,
\* after a failure too.
Return_ResetsAlways(t) ==
    /\ Settled(t)
    /\ IF pc[t] = "done"
       THEN UNCHANGED toasts
       ELSE toasts' = [toasts EXCEPT ![t] =
                Append(@, Notice("error", err[t], <<>>, Len(calls[t])))]
    /\ editMode' = FALSE
    /\ selectedSlugs' = <<>>
    /\ deleting' = FALSE
    /\ exec' = [exec EXCEPT ![t] = "end"]
    /\ UNCHANGED <<isAuth, picker, reads, before>>
    /\ UNCHANGED callVars

\* executeDelete after its await: the rest of try, or catch, then finally.
Return(t) ==
    /\ Settled(t)
    /\ IF pc[t] = "done"
       THEN /\ editMode' = FALSE
            /\ selectedSlugs' = <<>>
            /\ UNCHANGED toasts
       ELSE /\ toasts' = [toasts EXCEPT ![t] =
                   Append(@, Notice("error", err[t], <<>>, Len(calls[t])))]
            /\ UNCHANGED <<editMode, selectedSlugs>>
    /\ deleting' = FALSE
    /\ exec' = [exec EXCEPT ![t] = "end"]
    /\ UNCHANGED <<isAuth, picker, reads, before>>
    /\ UNCHANGED callVars

\* handleBatchDelete, from the delete button, which is shown in edit mode
\* and disabled while deleting or with nothing selected.
handleBatchDelete(confirmed) ==
    /\ Quiet /\ ~picker
    /\ editMode /\ ~deleting
    /\ Len(selectedSlugs) # 0
    /\ IF ~confirmed
       THEN UNCHANGED vars
       ELSE IF ~isAuth
            THEN /\ picker' = TRUE
                 /\ UNCHANGED <<editMode, selectedSlugs, deleting, isAuth, reads, exec, before, toasts>>
                 /\ UNCHANGED callVars
            ELSE /\ executeDelete(selectedSlugs)
                 /\ UNCHANGED <<editMode, selectedSlugs, isAuth, picker, reads>>

\* The key file dialog closes: with a file, onChange starts
\* handlePrivateKeySelection, whose executeDelete is the one of this render;
\* without one nothing runs.
onChange(chosen) ==
    /\ Quiet /\ picker
    /\ picker' = FALSE
    /\ IF chosen
       THEN /\ Len(reads) < MaxReads
            /\ reads' = Append(reads, selectedSlugs)
       ELSE UNCHANGED reads
    /\ UNCHANGED <<editMode, selectedSlugs, deleting, isAuth, exec, before, toasts>>
    /\ UNCHANGED callVars

\* handlePrivateKeySelection after await readFileAsText(file): setPrivateKey
\* and executeDelete, or the catch.
handlePrivateKeySelection(i, ok) ==
    /\ Quiet
    /\ i \in 1..Len(reads)
    /\ reads' = SubSeq(reads, 1, i - 1) \o SubSeq(reads, i + 1, Len(reads))
    /\ IF ok
       THEN /\ isAuth' = TRUE
            /\ executeDelete(reads[i])
            /\ UNCHANGED <<editMode, selectedSlugs, picker>>
       ELSE /\ UNCHANGED <<editMode, selectedSlugs, deleting, isAuth, picker, exec, before, toasts>>
            /\ UNCHANGED callVars

\* The events of one mounted component, the steps of the calls it makes and
\* the other writers.
NextUI ==
    \/ toggleEditMode
    \/ \E slug \in Posts : toggleSelect(slug)
    \/ \E confirmed \in BOOLEAN : handleBatchDelete(confirmed)
    \/ \E chosen \in BOOLEAN : onChange(chosen)
    \/ \E i \in 1..MaxReads, ok \in BOOLEAN : handlePrivateKeySelection(i, ok)
    \/ \E t \in Clients : Return(t)
    \/ \E t \in Clients : Step(t) /\ UNCHANGED view
    \/ OtherWriter /\ UNCHANGED view

SpecUI == InitUI /\ [][NextUI]_vars

\* ------------------------------------------------------ what claims read
\* The call of t has read the branch head.
HasBase(t) ==
    \/ pc[t] \in {"list", "createTree", "createCommit", "updateRef", "done"}
    \/ pc[t] = "failed" /\ err[t] \in {"list", "createTree", "createCommit", "conflict", "updateRef"}

\* The call of t has got its commit from createCommit.
HasCommit(t) == pc[t] \in {"updateRef", "done"} \/ (pc[t] = "failed" /\ err[t] \in {"conflict", "updateRef"})

\* The call of t has got its tree from createTree.
HasTree(t) == HasCommit(t) \/ pc[t] = "createCommit" \/ (pc[t] = "failed" /\ err[t] = "createCommit")

\* This step is the updateRef call of t.
UpdateRefStep(t) == pc[t] = "updateRef" /\ pc'[t] # "updateRef"

\* This step is a step of the call of t.
StepOf(t) == <<pc[t], idx[t]>> # <<pc'[t], idx'[t]>>

\* The content files and image files of slug in tree.
ArtifactsOf(slug, tree) ==
    {p \in tree : p = mdPath(slug) \/ p = mdxPath(slug) \/ IsUnder(p, imagesPath(slug))}

\* The artifacts of every slug of the list in tree.
BatchArtifacts(list, tree) == UNION {ArtifactsOf(list[i], tree) : i \in 1..Len(list)}

\* The paths of a mutation set.
ItemPaths(items) == {items[i].path : i \in 1..Len(items)}

\* ----------------------------------------------------------------- C1
\* C1: the updateRef step is a compare-and-swap on the commit getRef
\* returned: the pointer moves, and then to the new commit, only if it is
\* that commit at the moment of the update; when it differs the pointer
\* stays and the call fails, with a conflict unless the request itself
\* failed; a conflict is answered only when it differs.
C1_CompareAndSwap ==
    [][\A t \in Clients : UpdateRefStep(t) =>
          /\ (head' # head => head = latestCommitSha[t] /\ head' = commitData[t])
          /\ (head # latestCommitSha[t] => head' = head /\ pc'[t] = "failed")
          /\ (head # latestCommitSha[t] /\ err'[t] # "updateRef" => err'[t] = "conflict")
          /\ (head = latestCommitSha[t] => err'[t] # "conflict")
          /\ (pc'[t] = "done" => head' = commitData[t])]_vars

\* A conflict was answered to one call after another call had moved the pointer.
C1_Witness ==
    \E t, u \in Clients :
        /\ pc[t] = "failed" /\ err[t] = "conflict"
        /\ head # latestCommitSha[t]
        /\ pc[u] = "done" /\ head = commitData[u]

\* ----------------------------------------------------------------- C2
\* C2: of two calls that read the same branch head as their base at most
\* one succeeds; when one has succeeded the other's updateRef does not, and
\* the commit of a call that was answered a conflict is never reachable
\* from the branch.
C2_AtMostOneWinner ==
    /\ \A t, u \in Clients :
          (t # u /\ HasBase(t) /\ HasBase(u) /\ latestCommitSha[t] = latestCommitSha[u])
              => ~(pc[t] = "done" /\ pc[u] = "done")
    /\ \A t \in Clients :
          (pc[t] = "failed" /\ err[t] = "conflict") => commitData[t] \notin Ancestors(head)
    /\ \A t, u \in Clients :
          (t # u /\ HasBase(t) /\ HasBase(u) /\ latestCommitSha[t] = latestCommitSha[u]
               /\ pc[t] = "done" /\ HasCommit(u))
              => commitData[u] \notin Ancestors(head)

\* Two calls read the same head; one succeeded, the other got a conflict.
C2_Witness ==
    \E t, u \in Clients :
        /\ t # u /\ HasBase(t) /\ HasBase(u)
        /\ latestCommitSha[t] = latestCommitSha[u]
        /\ pc[t] = "done"
        /\ pc[u] = "failed" /\ err[u] = "conflict"
        /\ commitData[u] \notin Ancestors(head)

\* ----------------------------------------------------------------- C3
\* C3: every step of a call either leaves the branch where it is, or moves
\* it to a tree that is the call's base tree without any of the artifacts
\* the base tree had for the selected slugs: never to a tree with only some
\* of them removed.  A step in which the call fails before updateRef leaves
\* the branch where it is.
C3_AllOrNothing ==
    [][\A t \in Clients : StepOf(t) =>
          /\ \/ head' = head
             \/ /\ head'.tree \cap BatchArtifacts(slugs[t], latestCommitSha[t].tree) = {}
                /\ head'.tree = latestCommitSha[t].tree \ BatchArtifacts(slugs[t], latestCommitSha[t].tree)
          /\ (pc'[t] = "failed" /\ err'[t] # "updateRef" => head' = head)]_vars

\* A call removed the three artifacts of post a in one move of the branch.
C3_Witness ==
    \E t \in Clients :
        /\ pc[t] = "done" /\ head = commitData[t]
        /\ Cardinality(BatchArtifacts(slugs[t], latestCommitSha[t].tree)) >= 3
        /\ head.tree \cap BatchArtifacts(slugs[t], latestCommitSha[t].tree) = {}

\* ----------------------------------------------------------------- C4
\* C4: when a call succeeds the branch head is the commit it created, that
\* commit has exactly one parent, the parent is the head of the moment
\* before the update and the commit getRef returned, and everything that
\* was in the branch's history stays in it.
C4_SoleParentIsPriorHead ==
    [][\A t \in Clients : (UpdateRefStep(t) /\ pc'[t] = "done") =>
          /\ head' = commitData[t]
          /\ Len(commitData[t].parents) = 1
          /\ commitData[t].parents[1] = head
          /\ commitData[t].parents = <<latestCommitSha[t]>>
          /\ Ancestors(head) \subseteq Ancestors(head')]_vars

\* A call succeeded on top of a commit of another writer.
C4_Witness ==
    \E t \in Clients :
        /\ pc[t] = "done" /\ head = commitData[t]
        /\ OtherCount(head) >= 1
        /\ head.parents[1].by = "other"
\* ----------------------------------------------------------------- C5
\* C5: when a call succeeds, the tree of the commit it put on the branch
\* holds, for every slug of its list, neither <slug>.md nor <slug>.mdx nor
\* any path under the slug's image directory, whatever other writers did
\* while the call ran.
C5_TargetsGone ==
    \A t \in Clients : pc[t] = "done" =>
        \A i \in 1..Len(slugs[t]) :
            \A p \in commitData[t].tree :
                /\ p # <<"src", "content", "blog">> \o Front(slugs[t][i]) \o <<Last(slugs[t][i]) \o ".md">>
                /\ p # <<"src", "content", "blog">> \o Front(slugs[t][i]) \o <<Last(slugs[t][i]) \o ".mdx">>
                /\ ~IsUnder(p, <<"public", "images">> \o slugs[t][i])

\* A call for post a succeeded after another writer had put an image of
\* a/b, which lies in the image directory of a, on the branch.
C5_Witness ==
    \E t \in Clients :
        /\ pc[t] = "done" /\ head = commitData[t]
        /\ <<"a">> \in Range(slugs[t])
        /\ <<"public", "images", "a", "b", "y.png">> \in latestCommitSha[t].tree
        /\ <<"public", "images", "a", "x.png">> \in latestCommitSha[t].tree

\* ----------------------------------------------------------------- C6
\* C6: the tree createTree returns agrees with the base tree at every path
\* of the mutation set that the base tree does not hold (the path stays
\* absent), and a call whose mutation set names such paths can succeed.
C6_AbsentPathNoOp ==
    \A t \in Clients : HasTree(t) =>
        \A p \in ItemPaths(treeItems[t]) :
            p \notin latestCommitSha[t].tree => p \notin treeData[t]

\* The call for post a/b alone succeeded: its .mdx file and its image
\* directory were absent from the base tree, its .md file is gone.
C6_Witness ==
    \E t \in Clients :
        /\ pc[t] = "done" /\ head = commitData[t]
        /\ slugs[t] = << <<"a", "b">> >>
        /\ listed[t] = << <<>> >>
        /\ <<"src", "content", "blog", "a", "b.mdx">> \in ItemPaths(treeItems[t])
        /\ <<"src", "content", "blog", "a", "b.mdx">> \notin latestCommitSha[t].tree
        /\ <<"src", "content", "blog", "a", "b.md">> \in latestCommitSha[t].tree
        /\ <<"src", "content", "blog", "a", "b.md">> \notin head.tree

\* ----------------------------------------------------------------- C7
\* C7: after the iterations for the first idx slugs, the paths of the
\* mutation set are exactly the .md and .mdx path of each of these slugs
\* and every path their listings returned, and every entry has a null sha;
\* so it is for the whole list when the set is handed to createTree.
C7_ExactMutationSet ==
    \A t \in Clients : HasBase(t) =>
        /\ ItemPaths(treeItems[t]) =
               UNION {{mdPath(slugs[t][i]), mdxPath(slugs[t][i])} \cup Range(listed[t][i])
                         : i \in 1..idx[t]}
        /\ \A k \in 1..Len(treeItems[t]) : treeItems[t][k].sha = NullSha
        /\ Len(listed[t]) = idx[t]
        /\ (pc[t] \in {"createTree", "createCommit", "updateRef", "done"} => idx[t] = Len(slugs[t]))

\* A mutation set for two different slugs, one with a listed image, is at createTree.
C7_Witness ==
    \E t \in Clients :
        /\ pc[t] = "createTree"
        /\ Len(slugs[t]) = 2 /\ slugs[t][1] # slugs[t][2]
        /\ \E i \in 1..2 : listed[t][i] # <<>>
        /\ Cardinality(ItemPaths(treeItems[t])) >= 5

\* ----------------------------------------------------------------- C8
\* C8: the mutation set never holds two entries with the same path.
C8_NoDuplicatePaths ==
    \A t \in Clients :
        \A j, k \in 1..Len(treeItems[t]) :
            j # k => treeItems[t][j].path # treeItems[t][k].path

\* ----------------------------------------------------------------- C9
\* C9: a call with an empty or missing slug list has failed with the input
\* error as soon as it was entered, has made no external call, and the step
\* that entered it left the branch where it was.
C9_EmptyListRejected ==
    /\ [](\A t \in Clients :
            (pc[t] # "idle" /\ (~slugsGiven[t] \/ Len(slugs[t]) = 0)) =>
                /\ pc[t] = "failed"
                /\ err[t] = "input"
                /\ calls[t] = <<>>)
    /\ [][\A t \in Clients :
            (pc[t] = "idle" /\ pc'[t] # "idle" /\ (~slugsGiven'[t] \/ Len(slugs'[t]) = 0))
                => head' = head]_vars

\* One call was rejected for an empty list, another for a missing one.
C9_Witness ==
    \E t, u \in Clients :
        /\ pc[t] = "failed" /\ err[t] = "input" /\ slugsGiven[t] /\ slugs[t] = <<>>
        /\ pc[u] = "failed" /\ err[u] = "input" /\ ~slugsGiven[u]

\* ---------------------------------------------------------------- C10
\* C10: a call in which getAuthToken failed has ended, has made no external
\* call but getAuthToken, and the failing step left the branch where it was.
C10_AuthFailureAborts ==
    /\ [](\A t \in Clients :
            err[t] = "auth" =>
                /\ pc[t] = "failed"
                /\ calls[t] = << <<"getAuthToken">> >>
                /\ treeItems[t] = <<>>)
    /\ [][\A t \in Clients : (err[t] # "auth" /\ err'[t] = "auth") => head' = head]_vars

\* A call for a non-empty list ended with the credential failure.
C10_Witness ==
    \E t \in Clients :
        /\ pc[t] = "failed" /\ err[t] = "auth"
        /\ Len(slugs[t]) >= 1
\* ---------------------------------------------------------------- C11
\* The external calls of a call that has listed the first n slugs of its list.
CallsThroughListing(list, n) ==
    << <<"getAuthToken">>, <<"getRef">> >>
        \o [i \in 1..n |-> <<"listRepoFilesRecursive", <<"public", "images">> \o list[i]>>]

\* C11: a call in which a listing failed has ended; its external calls are
\* getAuthToken, getRef and the listings up to the failing one, so no later
\* slug was listed and createTree, createCommit and updateRef were never
\* called; the failing step left the branch where it was.
C11_ListingFailureAborts ==
    /\ [](\A t \in Clients :
            err[t] = "list" =>
                /\ pc[t] = "failed"
                /\ idx[t] < Len(slugs[t])
                /\ calls[t] = CallsThroughListing(slugs[t], idx[t] + 1))
    /\ [][\A t \in Clients : (err[t] # "list" /\ err'[t] = "list") => head' = head]_vars

\* The listing of the middle slug of three failed.
C11_Witness ==
    \E t \in Clients :
        /\ pc[t] = "failed" /\ err[t] = "list"
        /\ Len(slugs[t]) = 3 /\ idx[t] = 1
        /\ Len(calls[t]) = 4

\* ---------------------------------------------------------------- C12
\* C12: a call in which createTree or createCommit failed has ended with
\* that call as its last external call, so updateRef was never called; the
\* failing step left the branch where it was.
C12_ConstructionFailureAborts ==
    /\ [](\A t \in Clients :
            err[t] \in {"createTree", "createCommit"} =>
                /\ pc[t] = "failed"
                /\ calls[t][Len(calls[t])] = <<err[t]>>
                /\ \A i \in 1..Len(calls[t]) : calls[t][i] # <<"updateRef">>)
    /\ [][\A t \in Clients :
            (err[t] = NoErr /\ err'[t] \in {"createTree", "createCommit"}) => head' = head]_vars

\* createCommit failed after the tree had been created.
C12_Witness ==
    \E t \in Clients :
        /\ pc[t] = "failed" /\ err[t] = "createCommit"
        /\ treeData[t] # {}
        /\ head = latestCommitSha[t]
\* ---------------------------------------------------------------- C13
\* The call of u runs on the slug list of the call of t, which failed with a
\* conflict.
RetryOf(t, u) ==
    /\ t # u
    /\ pc[t] = "failed" /\ err[t] = "conflict"
    /\ slugs[u] = slugs[t]

\* C13: a call that runs on the slug list of a call failed with a conflict
\* and comes to updateRef with the branch still on the commit it read gets
\* no conflict: the store takes its commit, whose tree is the tree of the
\* branch less every artifact of the listed slugs, so when updateRef answers
\* the branch holds none of the targets and all else the other writers put
\* there.
C13_RetryAfterConflict ==
    /\ [](\A t, u \in Clients :
            (RetryOf(t, u) /\ pc[u] = "updateRef" /\ head = latestCommitSha[u]) =>
                /\ CanAdvance(head, commitData[u])
                /\ commitData[u].tree = head.tree \ BatchArtifacts(slugs[u], head.tree))
    /\ [][\A t, u \in Clients :
            (RetryOf(t, u) /\ UpdateRefStep(u) /\ head = latestCommitSha[u]) =>
                /\ err'[u] # "conflict"
                /\ pc'[u] = "done" =>
                      /\ BatchArtifacts(slugs[u], head'.tree) = {}
                      /\ head.tree \ BatchArtifacts(slugs[u], head.tree) \subseteq head'.tree]_vars

\* After the first executeDelete ended on a conflict, the second one, on the
\* same slugs, moved the branch; the file the other writer added is there.
C13_Witness ==
    /\ exec["c1"] = "end" /\ err["c1"] = "conflict"
    /\ pc["c2"] = "done" /\ slugs["c2"] = slugs["c1"]
    /\ head = commitData["c2"]
    /\ <<"src", "content", "blog", "n.md">> \in head.tree
    /\ BatchArtifacts(slugs["c2"], head.tree) = {}

\* ---------------------------------------------------------------- C14
\* C14: the branch-head read whose result is the base of createTree is the
\* external call made immediately before createTree: it comes after every
\* listing and no other call lies between the two.
C14_BaseReadJustBeforeCreateTree ==
    \A t \in Clients :
        \A k \in 1..Len(calls[t]) :
            calls[t][k] = <<"createTree">> => (k > 1 /\ calls[t][k - 1] = <<"getRef">>)

\* ---------------------------------------------------------------- C15
\* The external calls of a complete call on list, in order.
ExpectedCalls(list) ==
    CallsThroughListing(list, Len(list))
        \o << <<"createTree">>, <<"createCommit">>, <<"updateRef">> >>

\* C15: the external calls of a call are made one after the other in the
\* order getAuthToken, getRef, the listings in list order, createTree,
\* createCommit, updateRef, each only while no earlier call has failed;
\* the commit is made of the tree createTree returned, and an updateRef that
\* moves the branch moves it to the commit createCommit returned.
C15_StagesInOrder ==
    /\ [](\A t \in Clients :
            /\ Len(calls[t]) <= Len(ExpectedCalls(slugs[t]))
            /\ calls[t] = SubSeq(ExpectedCalls(slugs[t]), 1, Len(calls[t]))
            /\ HasCommit(t) => commitData[t].tree = treeData[t])
    /\ [][\A t \in Clients :
            /\ calls'[t] # calls[t] =>
                  /\ err[t] = NoErr
                  /\ Len(calls'[t]) = Len(calls[t]) + 1
            /\ (UpdateRefStep(t) /\ head' # head) => head' = commitData[t]]_vars

\* A call on three slugs has made all its external calls and moved the
\* branch to a commit whose tree differs from the tree of its base.
C15_Witness ==
    \E t \in Clients :
        /\ pc[t] = "done" /\ Len(slugs[t]) = 3
        /\ calls[t] = ExpectedCalls(slugs[t])
        /\ commitData[t].tree # latestCommitSha[t].tree
        /\ head = commitData[t]

\* ---------------------------------------------------------------- C16
\* The number of external calls named name made by the call of t.
CallCount(t, name) == Cardinality({k \in 1..Len(calls[t]) : calls[t][k][1] = name})

\* The listings made by the call of t, in order.
ListingCalls(t) == SelectSeq(calls[t], LAMBDA c : c[1] = "listRepoFilesRecursive")

\* C16: a call makes getRef, createTree, createCommit and updateRef at most
\* once each and at most one listing per entry of its list, the i-th listing
\* being that of the i-th entry; once a call has failed or succeeded it makes
\* no further external call and keeps its outcome, and the outcome is failed
\* exactly when a stage has failed.
C16_NoRetry ==
    /\ [](\A t \in Clients :
            /\ \A name \in {"getAuthToken", "getRef", "createTree", "createCommit", "updateRef"} :
                  CallCount(t, name) <= 1
            /\ Len(ListingCalls(t)) <= Len(slugs[t])
            /\ \A i \in 1..Len(ListingCalls(t)) :
                  ListingCalls(t)[i][2] = <<"public", "images">> \o slugs[t][i]
            /\ (pc[t] = "failed") = (err[t] # NoErr)
            /\ pc[t] = "done" => CallCount(t, "updateRef") = 1)
    /\ [][\A t \in Clients :
            (pc[t] \in {"done", "failed"} \/ err[t] # NoErr) =>
                /\ calls'[t] = calls[t]
                /\ pc'[t] = pc[t]
                /\ err'[t] = err[t]
                /\ commitData'[t] = commitData[t]]_vars

\* A call on three slugs failed at its last listing after two listings that
\* succeeded.
C16_Witness ==
    \E t \in Clients :
        /\ pc[t] = "failed" /\ err[t] = "list"
        /\ Len(slugs[t]) = 3 /\ idx[t] = 2
        /\ Len(ListingCalls(t)) = 3
\* ---------------------------------------------------------------- C17
\* The progress notification due before the k-th external call of t.
ProgressOf(t, k) ==
    LET c == calls[t][k]
    IN  IF c[1] = "listRepoFilesRecursive"
        THEN Notice("info", "list", slugs[t][k - 2], k - 1)
        ELSE Notice("info", c[1], <<>>, k - 1)

\* The places of the final notifications among those of t.
Finals(t) == {n \in 1..Len(toasts[t]) : toasts[t][n].kind \in {"success", "error"}}

C18_OneInFlight ==
    Cardinality({t \in Clients : exec[t] = "await"}) <= 1
\* ---------------------------------------------------------------- C19
\* This step is the end of the executeDelete that made the call of t.
ReturnStep(t) == Settled(t) /\ exec'[t] = "end"

\* C19 as stated: executeDelete ends with deleting false; after a call that
\* succeeded editMode is false and the selection empty, after one that
\* failed editMode and the selection are what they were when it began.
C19_ViewAsBeforeAttempt ==
    [][\A t \in Clients : ReturnStep(t) =>
          /\ deleting' = FALSE
          /\ IF pc[t] = "done"
             THEN editMode' = FALSE /\ selectedSlugs' = <<>>
             ELSE /\ editMode' = before[t].editMode
                  /\ selectedSlugs' = before[t].selectedSlugs]_vars

\* C19: executeDelete ends with deleting false; after a call that succeeded
\* editMode is false and the selection empty; after one that failed the end
\* of executeDelete changes neither editMode nor the selection, which are
\* what the events since it began have made them.
C19_FailureLeavesView ==
    [][\A t \in Clients : ReturnStep(t) =>
          /\ deleting' = FALSE
          /\ IF pc[t] = "done"
             THEN editMode' = FALSE /\ selectedSlugs' = <<>>
             ELSE editMode' = editMode /\ selectedSlugs' = selectedSlugs]_vars

\* An executeDelete has ended on a failed call and the selection it began
\* with is still there, in edit mode.
C19_Witness ==
    \E t \in Clients :
        /\ exec[t] = "end" /\ pc[t] = "failed"
        /\ ~deleting /\ editMode
        /\ selectedSlugs # <<>>
        /\ selectedSlugs = slugs[t]
        /\ before[t].selectedSlugs = selectedSlugs

\* ---------------------------------------------------------------- C20
\* C20: whenever editMode is false the selection is empty.
C20_NoSelectionOutsideEditMode ==
    ~editMode => selectedSlugs = <<>>

\* An executeDelete that began with a selection has ended on the success of
\* its call: edit mode is left and nothing is selected.
C20_Witness ==
    \E t \in Clients :
        /\ exec[t] = "end" /\ pc[t] = "done"
        /\ before[t].selectedSlugs # <<>>
        /\ ~editMode /\ selectedSlugs = <<>>

====
